---- MODULE Spec2Model ----
(***************************************************************************)
(* Model of the learnable dense layer history (fairseq/modules/            *)
(* layer_history.py) and of the encoder forward pass that drives it        *)
(* (fairseq/models/sdt_transformer.py, TransformerEncoder).                *)
(*                                                                         *)
(* Tensors are formal linear combinations, with exact rational             *)
(* coefficients, of opaque atoms: the embedded input of a pass, the output *)
(* of a LayerBlock on a tensor, the output of a LayerNorm on a tensor.     *)
(* The weighted sum of pop() is computed on them; LayerBlock and LayerNorm *)
(* are external and stay uninterpreted.                                    *)
(***************************************************************************)
EXTENDS Integers, Sequences, FiniteSets, TLC

\* ---------------------------------------------------------------- bounds
MaxLayers == 4      \* args.encoder_layers ranges over 0..MaxLayers
MaxK == 3           \* len(args.k) ranges over 0..MaxK
NumInputs == 2      \* distinct source batches a pass can be given
MaxPasses == 2      \* forward passes on one encoder instance
MaxRecords == 5     \* add() calls between two clean() calls of a free client
MaxDepth == 3       \* encoder_layers of a snapshot given to stack.py: 0..MaxDepth
MaxDelta == 3       \* sys.argv[3] of stack.py ranges over 0..MaxDelta
MaxSnapK == 3       \* len(ckpt['args'].k) of a snapshot ranges over 1..MaxSnapK
NumeralBound == 40  \* int() recognises the numerals of 0..NumeralBound

\* ------------------------------------------------- exact rational numbers
\* a rational is <<numerator, denominator>>, denominator > 0, in lowest terms
Abs(n) == IF n < 0 THEN -n ELSE n

RECURSIVE GCD(_, _)
GCD(a, b) == IF b = 0 THEN a ELSE GCD(b, a % b)

Rat(n, d) == LET g == GCD(Abs(n), d) IN <<n \div g, d \div g>>

RAdd(p, q) == Rat(p[1] * q[2] + q[1] * p[2], p[2] * q[2])

RMul(p, q) == Rat(p[1] * q[1], p[2] * q[2])

\* p / q for q > 0
RDiv(p, q) == Rat(p[1] * q[2], p[2] * q[1])

\* ---------------------------------------------------------------- tensors
\* a tensor is a function from atoms to non-zero rationals
ZeroT == [a \in {} |-> <<0, 1>>]

Unit(a) == [b \in {a} |-> <<1, 1>>]

Coef(t, a) == IF a \in DOMAIN t THEN t[a] ELSE <<0, 1>>

\* scalar * tensor
Scale(q, t) == IF q[1] = 0 THEN ZeroT ELSE [a \in DOMAIN t |-> RMul(q, t[a])]

\* tensor + tensor
TAdd(s, t) ==
    LET D == DOMAIN s \cup DOMAIN t
        c(a) == RAdd(Coef(s, a), Coef(t, a))
    IN [a \in {b \in D : c(b)[1] # 0} |-> c(a)]

\* x = embed_scale * embed_tokens(src_tokens) + positions, for batch number b
Embed(b) == Unit(<<"emb", b, ZeroT>>)

\* layer(x, encoder_padding_mask)[0] of TransformerEncoderLayer number i
LayerBlock(i, x) == Unit(<<"layer", i, x>>)

\* self.layer_norms[s](x)
LayerNorm(s, x) == Unit(<<"norm", s, x>>)

\* self.layer_norm(x), the norm after the stack
FinalNorm(x) == Unit(<<"final_norm", 0, x>>)

\* ------------------------------------------------------ layer history object
\* Python indexing of a container of size n with index i (negative wraps)
IndexOK(i, n) == -n <= i /\ i < n

AbsIndex(i, n) == IF i < 0 THEN i + n ELSE i

RECURSIVE RowSum(_, _)
\* sum of the first n entries of row r (a 0-based function of rationals)
RowSum(r, n) == IF n = 0 THEN <<0, 1>> ELSE RAdd(RowSum(r, n - 1), r[n - 1])

\* torch.Tensor(n, n).fill_(1.0).tril()
Tril(n) == [i \in 0..(n - 1) |-> [j \in 0..(n - 1) |-> IF j <= i THEN <<1, 1>> ELSE <<0, 1>>]]

\* divides by the size of the matrix, not by the sum of the row
InitWeight_bySize(n) ==
    LET m == Tril(n)
    IN [i \in 0..(n - 1) |-> [j \in 0..(n - 1) |-> RDiv(m[i][j], <<n, 1>>)]]

\* weight.data / weight.data.sum(1, keepdim=True)
InitWeight(n) ==
    LET m == Tril(n)
    IN [i \in 0..(n - 1) |-> [j \in 0..(n - 1) |-> RDiv(m[i][j], RowSum(m[i], n))]]

\* one slot short: a slot per interval between checkpoints but the last
NumNorms_short(lenk) == IF lenk - 2 < 0 THEN 0 ELSE lenk - 2

\* len(self.layer_norms): range(len(args.k) - 1) is empty for a negative count
NumNorms(lenk) == IF lenk - 1 < 0 THEN 0 ELSE lenk - 1

\* LearnableDenseLayerHistory.__init__ for the encoder; self.layers is not
\* assigned by the constructor (has_layers), self.sum is None (<<>>)
NewHistory(lenk, nb) ==
    [normalize_before |-> nb,
     layer_norms |-> NumNorms(lenk),
     sum |-> <<>>,
     count |-> 0,
     layer_num |-> lenk,
     weight |-> InitWeight(lenk),
     has_layers |-> FALSE,
     layers |-> <<>>]

\* off by one: the slot of the next entry
NormSlot_next(count) == count - 1

\* index of the normalization slot used by add() and pop()
NormSlot(count) == count - 2

\* LearnableDenseLayerHistory.add; err names the exception raised, if any
add(h, layer) ==
    LET h1 == [h EXCEPT !.count = h.count + 1]
    IN IF h1.sum = <<>>
       THEN LET h2 == [h1 EXCEPT !.sum = <<layer>>]
            IN IF ~h2.has_layers
               THEN [h |-> h2, err |-> "AttributeError"]
               ELSE [h |-> [h2 EXCEPT !.layers = Append(@, layer)], err |-> "none"]
       ELSE IF h1.normalize_before /\ ~IndexOK(NormSlot(h1.count), h1.layer_norms)
       THEN [h |-> h1, err |-> "IndexError"]
       ELSE LET l == IF h1.normalize_before
                     THEN LayerNorm(AbsIndex(NormSlot(h1.count), h1.layer_norms), layer)
                     ELSE layer
            IN IF ~h1.has_layers
               THEN [h |-> h1, err |-> "AttributeError"]
               ELSE [h |-> [h1 EXCEPT !.layers = Append(@, l)], err |-> "none"]

\* off by one: the row of the next entry
WeightRow_next(count) == count

\* row of self.weight read by pop()
WeightRow(count) == count - 1

\* number of columns selected by the slice [: count] of a row of size n
SliceLen(count, n) == IF count < 0 THEN (IF n + count < 0 THEN 0 ELSE n + count)
                      ELSE IF count > n THEN n ELSE count

RECURSIVE StackSum(_, _, _, _)
\* (torch.stack(layers, 0) * w.view(-1, 1, 1, 1)).sum(0) over the first len
\* broadcast positions; a dimension of size 1 is broadcast
StackSum(layers, w, m, len) ==
    IF len = 0 THEN ZeroT
    ELSE LET j == len - 1
             lj == IF Len(layers) = 1 THEN layers[1] ELSE layers[j + 1]
             wj == IF m = 1 THEN w[0] ELSE w[j]
         IN TAdd(StackSum(layers, w, m, len - 1), Scale(wj, lj))

\* forgets the special case of a single entry
PopNormalizes_noSingle(h) == ~h.normalize_before

\* whether pop() applies a normalization slot to the sum
PopNormalizes(h) == ~(h.count = 1 \/ h.normalize_before)

\* the assertion is compiled away
LedgerNotEmpty_off(h) == TRUE

\* assert len(self.layers) > 0
LedgerNotEmpty(h) == Len(h.layers) > 0

\* removes the entry on top, as the method's name suggests
LedgerAfterPop_drop(h) == SubSeq(h.layers, 1, Len(h.layers) - 1)

\* self.layers once pop() has returned: pop() assigns to no attribute
LedgerAfterPop(h) == h.layers

\* LearnableDenseLayerHistory.pop; err names the exception raised, if any
pop(h) ==
    IF ~h.has_layers THEN [h |-> h, ret |-> ZeroT, err |-> "AttributeError"]
    ELSE IF ~LedgerNotEmpty(h) THEN [h |-> h, ret |-> ZeroT, err |-> "AssertionError"]
    ELSE IF Len(h.layers) = 0 THEN [h |-> h, ret |-> ZeroT, err |-> "RuntimeError"]
    ELSE IF ~IndexOK(WeightRow(h.count), h.layer_num)
    THEN [h |-> h, ret |-> ZeroT, err |-> "IndexError"]
    ELSE LET w == h.weight[AbsIndex(WeightRow(h.count), h.layer_num)]
             m == SliceLen(h.count, h.layer_num)
             n == Len(h.layers)
             after == [h EXCEPT !.layers = LedgerAfterPop(h)]
         IN IF m # n /\ m # 1 /\ n # 1
            THEN [h |-> h, ret |-> ZeroT, err |-> "RuntimeError"]
            ELSE LET ret == StackSum(h.layers, w, m, IF n = 1 THEN m ELSE n)
                 IN IF ~PopNormalizes(h)
                    THEN [h |-> after, ret |-> ret, err |-> "none"]
                    ELSE IF ~IndexOK(NormSlot(h.count), h.layer_norms)
                    THEN [h |-> h, ret |-> ZeroT, err |-> "IndexError"]
                    ELSE [h |-> after, err |-> "none",
                          ret |-> LayerNorm(AbsIndex(NormSlot(h.count), h.layer_norms), ret)]

\* LearnableDenseLayerHistory.clean
clean(h) == [h EXCEPT !.sum = <<>>, !.count = 0, !.layers = <<>>, !.has_layers = TRUE]

\* ------------------------------------------------------------------ state
VARIABLES
    k,               \* args.k, the checkpoint list (a sequence of integers)
    encoder_layers,  \* args.encoder_layers = len(self.layers) of the encoder
    normalize,       \* args.encoder_normalize_before
    history,         \* self.history: <<>> for None, else <<history record>>
    pc,              \* "ready" | "loop" (inside forward) | "api" (free client)
    layer_id,        \* loop variable of forward
    x,               \* the carried representation of forward
    passes,          \* forward calls made on this encoder
    err,             \* exception that ended the last forward, or "none"
    trace,           \* history calls and LayerBlock runs of the current pass
    last,            \* the last call a free client made on the history
    recorded,        \* arguments of the add() calls since the last clean()
    expander         \* one run of stack.py: the checkpoint and main()'s locals

vars == <<k, encoder_layers, normalize, history, pc, layer_id, x, passes, err,
          trace, last, recorded, expander>>

\* all sequences over S of length at most n
SeqsUpTo(S, n) == UNION {[1..m -> S] : m \in 0..n}

\* layer_id in self.k
InK(i, kk) == \E j \in 1..Len(kk) : kk[j] = i

\* CreateLayerHistory(args, is_encoder=True)
CreateLayerHistory(history_type, kk, nb) ==
    IF history_type = "none" THEN <<>> ELSE <<NewHistory(Len(kk), nb)>>

Event(op, at, val, out, e) == [op |-> op, at |-> at, val |-> val, out |-> out, err |-> e]

\* a call of a free client: its kind, argument and outcome, and the kind of
\* the call made before it
Call(op, arg, ret, e, prev) == [op |-> op, arg |-> arg, ret |-> ret, err |-> e, prev |-> prev]

NoCall == Call("init", ZeroT, ZeroT, "none", "init")

\* no run of stack.py
NoExpander == [pc |-> "idle"]

\* ------------------------------------------------------ encoder forward pass
\* TransformerEncoder.__init__ with every args.k, depth and history type
Init ==
    /\ k \in SeqsUpTo(0..MaxLayers, MaxK)
    /\ encoder_layers \in 0..MaxLayers
    /\ normalize \in BOOLEAN
    /\ \E history_type \in {"none", "learnable_dense"} :
           history = CreateLayerHistory(history_type, k, normalize)
    /\ pc = "ready"
    /\ layer_id = 0
    /\ x = ZeroT
    /\ passes = 0
    /\ err = "none"
    /\ trace = <<>>
    /\ last = NoCall
    /\ recorded = <<>>
    /\ expander = NoExpander

\* forward up to the layer loop: clean(), embedding, add(x)
StartForward ==
    /\ pc = "ready"
    /\ passes < MaxPasses
    /\ \E b \in 1..NumInputs :
         LET emb == Embed(b)
         IN IF history # <<>>
            THEN LET h0 == clean(history[1])
                     a == add(h0, emb)
                 IN /\ history' = <<a.h>>
                    /\ trace' = <<Event("clean", -1, ZeroT, ZeroT, "none"),
                                  Event("add", -1, emb, ZeroT, a.err)>>
                    /\ err' = a.err
                    /\ pc' = IF a.err = "none" THEN "loop" ELSE "ready"
                    /\ x' = emb
            ELSE /\ history' = history
                 /\ trace' = <<>>
                 /\ err' = "none"
                 /\ pc' = "loop"
                 /\ x' = emb
    /\ layer_id' = 0
    /\ passes' = passes + 1
    /\ UNCHANGED <<k, encoder_layers, normalize, last, recorded, expander>>

\* off by one: tests the next position
IsCheckpoint_next(i, kk) == InK(i + 1, kk)

\* the checkpoint test of the loop body
IsCheckpoint(i, kk) == InK(i, kk)

\* off by one: tests the position itself
RecordsAfter_self(i, kk) == InK(i, kk)

\* the test that guards the add() of the loop body
RecordsAfter(i, kk) == InK(i + 1, kk)

\* the block of a checkpoint position is nested under the history test, so
\* that it does not run when there is no history
LoopBody_nested(hs, kk, i, xx) ==
    IF IsCheckpoint(i, kk)
    THEN IF hs # <<>>
         THEN LET p == pop(hs[1])
                  y == LayerBlock(i, p.ret)
              IN IF p.err # "none"
                 THEN [history |-> <<p.h>>, x |-> xx, err |-> p.err,
                       ev |-> <<Event("pop", i, ZeroT, p.ret, p.err)>>]
                 ELSE [history |-> <<p.h>>, x |-> y, err |-> "none",
                       ev |-> <<Event("pop", i, ZeroT, p.ret, "none"),
                                Event("layer", i, p.ret, y, "none")>>]
         ELSE [history |-> hs, x |-> xx, err |-> "none", ev |-> <<>>]
    ELSE LET y == LayerBlock(i, xx)
         IN IF RecordsAfter(i, kk) /\ hs # <<>>
            THEN LET a == add(hs[1], y)
                 IN [history |-> <<a.h>>, x |-> y, err |-> a.err,
                     ev |-> <<Event("layer", i, xx, y, "none"),
                              Event("add", i, y, ZeroT, a.err)>>]
            ELSE [history |-> hs, x |-> y, err |-> "none",
                  ev |-> <<Event("layer", i, xx, y, "none")>>]

\* one iteration of "for layer_id, layer in enumerate(self.layers)"
LoopBody(hs, kk, i, xx) ==
    IF IsCheckpoint(i, kk)
    THEN IF hs # <<>>
         THEN LET p == pop(hs[1])
                  y == LayerBlock(i, p.ret)
              IN IF p.err # "none"
                 THEN [history |-> <<p.h>>, x |-> xx, err |-> p.err,
                       ev |-> <<Event("pop", i, ZeroT, p.ret, p.err)>>]
                 ELSE [history |-> <<p.h>>, x |-> y, err |-> "none",
                       ev |-> <<Event("pop", i, ZeroT, p.ret, "none"),
                                Event("layer", i, p.ret, y, "none")>>]
         ELSE LET y == LayerBlock(i, xx)
              IN [history |-> hs, x |-> y, err |-> "none",
                  ev |-> <<Event("layer", i, xx, y, "none")>>]
    ELSE LET y == LayerBlock(i, xx)
         IN IF RecordsAfter(i, kk) /\ hs # <<>>
            THEN LET a == add(hs[1], y)
                 IN [history |-> <<a.h>>, x |-> y, err |-> a.err,
                     ev |-> <<Event("layer", i, xx, y, "none"),
                              Event("add", i, y, ZeroT, a.err)>>]
            ELSE [history |-> hs, x |-> y, err |-> "none",
                  ev |-> <<Event("layer", i, xx, y, "none")>>]

LayerStep ==
    /\ pc = "loop"
    /\ layer_id < encoder_layers
    /\ LET r == LoopBody(history, k, layer_id, x)
       IN /\ history' = r.history
          /\ x' = r.x
          /\ err' = r.err
          /\ trace' = trace \o r.ev
          /\ pc' = IF r.err = "none" THEN "loop" ELSE "ready"
          /\ layer_id' = IF r.err = "none" THEN layer_id + 1 ELSE layer_id
    /\ UNCHANGED <<k, encoder_layers, normalize, passes, last, recorded, expander>>

\* forward after the loop: the last pop(), the final layer norm, return
Finish ==
    /\ pc = "loop"
    /\ layer_id = encoder_layers
    /\ IF history # <<>>
       THEN LET p == pop(history[1])
            IN /\ history' = <<p.h>>
               /\ trace' = Append(trace, Event("pop", encoder_layers, ZeroT, p.ret, p.err))
               /\ err' = p.err
               /\ x' = IF p.err # "none" THEN x
                       ELSE IF normalize THEN FinalNorm(p.ret) ELSE p.ret
       ELSE /\ history' = history
            /\ trace' = trace
            /\ err' = "none"
            /\ x' = IF normalize THEN FinalNorm(x) ELSE x
    /\ pc' = "ready"
    /\ UNCHANGED <<k, encoder_layers, normalize, layer_id, passes, last, recorded, expander>>

Next == StartForward \/ LayerStep \/ Finish

Spec == Init /\ [][Next]_vars

\* ------------------------------------- a free client of one history object
\* a LearnableDenseLayerHistory built for an encoder with len(args.k) = n
InitHistory ==
    /\ \E n \in 0..MaxK : k = [j \in 1..n |-> 2 * (j - 1)]
    /\ encoder_layers = IF k = <<>> THEN 0 ELSE k[Len(k)]
    /\ normalize \in BOOLEAN
    /\ history = CreateLayerHistory("learnable_dense", k, normalize)
    /\ pc = "api"
    /\ layer_id = 0
    /\ x = ZeroT
    /\ passes = 0
    /\ err = "none"
    /\ trace = <<>>
    /\ last = NoCall
    /\ recorded = <<>>
    /\ expander = NoExpander

CallClean ==
    /\ pc = "api"
    /\ history' = <<clean(history[1])>>
    /\ last' = Call("clean", ZeroT, ZeroT, "none", last.op)
    /\ recorded' = <<>>
    /\ UNCHANGED <<k, encoder_layers, normalize, pc, layer_id, x, passes, err, trace, expander>>

CallAdd ==
    /\ pc = "api"
    /\ Len(recorded) < MaxRecords
    /\ \E b \in 1..NumInputs :
         LET a == add(history[1], Embed(b))
         IN /\ history' = <<a.h>>
            /\ last' = Call("add", Embed(b), ZeroT, a.err, last.op)
            /\ recorded' = Append(recorded, Embed(b))
    /\ UNCHANGED <<k, encoder_layers, normalize, pc, layer_id, x, passes, err, trace, expander>>

CallPop ==
    /\ pc = "api"
    /\ LET p == pop(history[1])
       IN /\ history' = <<p.h>>
          /\ last' = Call("pop", ZeroT, p.ret, p.err, last.op)
    /\ UNCHANGED <<k, encoder_layers, normalize, pc, layer_id, x, passes, err, trace,
                   recorded, expander>>

NextHistory == CallClean \/ CallAdd \/ CallPop

SpecHistory == InitHistory /\ [][NextHistory]_vars

\* ----------------------------------------------------- properties: encoder
\* positions of the current pass's trace that hold an event of kind op
EventsOf(op) == {p \in 1..Len(trace) : trace[p].op = op}

\* k is strictly increasing, starts at 0 and ends at the layer count
ValidK ==
    /\ Len(k) >= 1
    /\ k[1] = 0
    /\ k[Len(k)] = encoder_layers
    /\ \A j \in 1..(Len(k) - 1) : k[j] < k[j + 1]

\* C1: with history configured, the block at a position i in k consumes the
\* value returned by a pop() made immediately before it; the block at a
\* position i not in k consumes exactly the previous block's output (the
\* embedded input for i = 0) and no pop() is made at that position.
C1_BlockInput ==
    history # <<>> =>
      \A p \in EventsOf("layer") :
        LET i == trace[p].at
        IN /\ p > 1
           /\ IF InK(i, k)
              THEN /\ trace[p - 1].op = "pop"
                   /\ trace[p - 1].at = i
                   /\ trace[p - 1].err = "none"
                   /\ trace[p].val = trace[p - 1].out
              ELSE /\ \A q \in EventsOf("pop") : trace[q].at # i
                   /\ IF i = 0
                      THEN /\ trace[p - 1].op = "add"
                           /\ trace[p - 1].at = -1
                           /\ trace[p].val = trace[p - 1].val
                      ELSE /\ trace[p - 1].op = "layer"
                           /\ trace[p - 1].at = i - 1
                           /\ trace[p].val = trace[p - 1].out

\* a finished pass that ran a block on a pop() result that differs from the
\* previous block's output, and a block on the previous block's output
C1_Witness ==
    /\ history # <<>> /\ pc = "ready" /\ passes > 0 /\ err = "none" /\ ValidK
    /\ \E p \in EventsOf("layer") :
         /\ InK(trace[p].at, k) /\ trace[p].at > 0
         /\ trace[p].val = trace[p - 1].out
         /\ \E q \in EventsOf("layer") :
              trace[q].at = trace[p].at - 1 /\ trace[q].out # trace[p].val
    /\ \E p \in EventsOf("layer") :
         /\ ~InK(trace[p].at, k) /\ trace[p].at > 0
         /\ trace[p].val = trace[p - 1].out

\* C2: with history configured, an add() is made inside the loop at position
\* i iff i+1 is in k and i is not, it records the output of block i, and the
\* only other add() of the pass is the one of the embedded input, made right
\* after clean() and before any block runs.
C2_RecordPositions ==
    (history # <<>> /\ trace # <<>>) =>
      /\ trace[1].op = "clean"
      /\ EventsOf("clean") = {1}
      /\ Len(trace) >= 2
      /\ trace[2].op = "add" /\ trace[2].at = -1
      /\ \E b \in 1..NumInputs : trace[2].val = Embed(b)
      /\ \A p \in EventsOf("add") \ {2} :
           LET i == trace[p].at
           IN /\ i \in 0..(encoder_layers - 1)
              /\ InK(i + 1, k) /\ ~InK(i, k)
              /\ trace[p - 1].op = "layer" /\ trace[p - 1].at = i
              /\ trace[p].val = trace[p - 1].out
              /\ \A q \in EventsOf("add") : trace[q].at = i => q = p
      /\ \A i \in 0..(layer_id - 1) :
           (InK(i + 1, k) /\ ~InK(i, k)) => \E p \in EventsOf("add") : trace[p].at = i

\* a finished pass in which a block's output was recorded and another block's
\* output, before a checkpoint that follows a checkpoint, was not
C2_Witness ==
    /\ history # <<>> /\ pc = "ready" /\ passes > 0 /\ err = "none" /\ ValidK
    /\ \E p \in EventsOf("add") : trace[p].at >= 0
    /\ \E i \in 0..(encoder_layers - 1) :
         /\ InK(i + 1, k) /\ InK(i, k)
         /\ \A p \in EventsOf("add") : trace[p].at # i

\* C3 (as claimed): a pass with a valid k makes exactly len(k) add() calls
\* and exactly len(k) pop() calls.
C3_CallCounts ==
    (history # <<>> /\ pc = "ready" /\ passes > 0 /\ err = "none" /\ ValidK) =>
      /\ Cardinality(EventsOf("add")) = Len(k)
      /\ Cardinality(EventsOf("pop")) = Len(k)

\* ----------------------------------------------- properties: history object
RECURSIVE WeightedSum(_, _, _)
\* w[0] * ledger[1] + ... + w[n-1] * ledger[n] (the ledger is 1-based here)
WeightedSum(w, ledger, n) ==
    IF n = 0 THEN ZeroT
    ELSE TAdd(WeightedSum(w, ledger, n - 1), Scale(w[n - 1], ledger[n]))

\* the history object has been reset at least once
WasReset == history[1].has_layers

\* C4: a pop() that returns on a ledger of length n >= 1 has computed the sum
\* over j < n of weight[n-1, j] * ledger[j]; the value returned is that sum,
\* or the sum passed through a normalization slot.
C4_WeightedSum ==
    (last.op = "pop" /\ last.err = "none") =>
      LET h == history[1]
          n == Len(h.layers)
      IN /\ n >= 1
         /\ n <= h.layer_num
         /\ \/ last.ret = WeightedSum(h.weight[n - 1], h.layers, n)
            \/ \E s \in 0..(h.layer_norms - 1) :
                 last.ret = LayerNorm(s, WeightedSum(h.weight[n - 1], h.layers, n))

\* pop() has returned on a ledger of three entries: a third of each
C4_Witness ==
    /\ last.op = "pop" /\ last.err = "none"
    /\ history[1].normalize_before
    /\ Len(history[1].layers) = 3
    /\ Cardinality(DOMAIN last.ret) = 3
    /\ \A a \in DOMAIN last.ret : last.ret[a] = <<1, 3>>
    /\ \A j \in 1..3 : DOMAIN history[1].layers[j] \subseteq DOMAIN last.ret

\* C5 (as claimed): once reset, the ledger length is the number of add()
\* calls since the last clean(), and self.count equals that length.
C5_CountIsLedgerLength ==
    WasReset =>
      /\ Len(history[1].layers) = Len(recorded)
      /\ history[1].count = Len(history[1].layers)

\* C6: pop() on an empty ledger after a clean() raises the assertion error
\* and leaves the ledger and the counter as they were.
C6_EmptyPopFails ==
    [][(CallPop /\ WasReset /\ Len(history[1].layers) = 0) =>
         (/\ last'.err = "AssertionError"
          /\ history'[1].layers = history[1].layers
          /\ history'[1].count = history[1].count)]_vars

\* pop() was called right after clean() and raised
C6_Witness ==
    /\ last.op = "pop" /\ last.prev = "clean" /\ last.err = "AssertionError"
    /\ WasReset /\ history[1].layers = <<>> /\ history[1].count = 0

\* C7: pop() changes neither the ledger nor the counter, and a pop() that
\* directly follows a pop() has the same outcome.
C7_PopIsPure ==
    [][CallPop =>
         (/\ history'[1].layers = history[1].layers
          /\ history'[1].count = history[1].count
          /\ history' = history
          /\ (last.op = "pop" => (last'.ret = last.ret /\ last'.err = last.err)))]_vars

\* two pop() calls in a row have returned on a ledger of two entries or more
C7_Witness ==
    /\ last.op = "pop" /\ last.prev = "pop" /\ last.err = "none"
    /\ Len(history[1].layers) >= 2
    /\ history[1].count = Len(history[1].layers)

\* the value is the output of normalization slot s
IsNormOutput(t, s) == \E a \in DOMAIN t : DOMAIN t = {a} /\ a[1] = "norm" /\ a[2] = s

IsAnyNormOutput(t) == \E a \in DOMAIN t : DOMAIN t = {a} /\ a[1] = "norm"

\* C8: with normalize_before, add() stores the first tensor raw and every
\* later tensor through slot (ledger length before the append) - 1, and pop()
\* returns the raw sum; without it add() stores every tensor raw and pop()
\* returns the sum through slot n - 2 when n > 1, raw when n = 1.
C8_NormalizationPlace ==
    LET h == history[1]
        n == Len(h.layers)
    IN /\ (WasReset /\ last.op = "add" /\ last.err = "none") =>
            /\ n >= 1
            /\ h.layers[n] = IF h.normalize_before /\ n - 1 >= 1
                             THEN LayerNorm((n - 1) - 1, last.arg)
                             ELSE last.arg
       /\ (last.op = "pop" /\ last.err = "none") =>
            IF ~h.normalize_before /\ n > 1
            THEN IsNormOutput(last.ret, n - 2)
            ELSE ~IsAnyNormOutput(last.ret)

\* with normalize_before, a third add() has stored its argument through
\* slot 1 = (ledger length 2 before the append) - 1
C8_Witness ==
    /\ WasReset /\ last.op = "add" /\ last.err = "none"
    /\ history[1].normalize_before
    /\ Len(history[1].layers) = 3
    /\ history[1].layers[3] = LayerNorm(1, last.arg)

\* C9: the weight matrix built for the encoder is len(k) x len(k), holds
\* 1/(i+1) at [i, j] for j <= i and 0 for j > i, and each row sums to 1.
C9_InitialWeight ==
    history # <<>> =>
      LET h == history[1]
          n == Len(k)
      IN /\ h.layer_num = n
         /\ DOMAIN h.weight = 0..(n - 1)
         /\ \A i \in 0..(n - 1) :
              /\ DOMAIN h.weight[i] = 0..(n - 1)
              /\ \A j \in 0..(n - 1) :
                   h.weight[i][j] = IF j <= i THEN <<1, i + 1>> ELSE <<0, 1>>
              /\ RowSum(h.weight[i], n) = <<1, 1>>

\* an encoder built with three checkpoints: the last row holds three thirds
C9_Witness ==
    /\ history # <<>> /\ Len(k) = 3 /\ passes = 0
    /\ history[1].weight[2] = [j \in 0..2 |-> <<1, 3>>]
    /\ history[1].weight[1][2] = <<0, 1>>

\* C10: after clean(); add(x), pop() returns x, in both modes.
C10_SingleRecordIdentity ==
    (WasReset /\ last.op = "pop" /\ Len(recorded) = 1 /\ history[1].layer_num >= 1) =>
      /\ last.err = "none"
      /\ last.ret = recorded[1]

\* pop() right after clean(); add(Embed(1)) has returned Embed(1)
C10_Witness ==
    /\ WasReset /\ last.op = "pop" /\ last.prev = "add" /\ Len(recorded) = 1
    /\ history[1].layer_num >= 2
    /\ last.ret = recorded[1]
    /\ recorded[1] = Embed(1)

\* ------------------------------------------ properties: encoder, continued
\* C11: without a history object a pass makes no clean(), add() or pop(); it
\* runs the blocks 0..L-1 once each, in order, each on the previous block's
\* output (the first on the embedded input), never fails, and returns the
\* output of the last block (through the final layer norm when that is on),
\* whatever k holds.
C11_PlainStack ==
    history = <<>> =>
      /\ err = "none"
      /\ \A p \in 1..Len(trace) :
           /\ trace[p].op = "layer"
           /\ trace[p].at = p - 1
           /\ IF p = 1 THEN \E b \in 1..NumInputs : trace[p].val = Embed(b)
                       ELSE trace[p].val = trace[p - 1].out
           /\ trace[p].out = LayerBlock(p - 1, trace[p].val)
      /\ pc = "loop" =>
           /\ Len(trace) = layer_id
           /\ IF layer_id = 0 THEN \E b \in 1..NumInputs : x = Embed(b)
                              ELSE x = trace[layer_id].out
      /\ (pc = "ready" /\ passes > 0) =>
           /\ Len(trace) = encoder_layers
           /\ LET top == IF encoder_layers = 0 THEN x ELSE trace[encoder_layers].out
              IN IF encoder_layers = 0
                 THEN \E b \in 1..NumInputs :
                        x = IF normalize THEN FinalNorm(Embed(b)) ELSE Embed(b)
                 ELSE x = IF normalize THEN FinalNorm(top) ELSE top

\* a finished pass without history over three blocks with a k that lists
\* two of their positions
C11_Witness ==
    /\ history = <<>> /\ pc = "ready" /\ passes > 0
    /\ encoder_layers = 3 /\ k = <<0, 1, 3>>
    /\ Len(trace) = 3
    /\ x = trace[3].out

\* k has a duplicate or a decreasing value, or its last element is not the
\* layer count
MalformedK ==
    \/ \E i, j \in 1..Len(k) : i < j /\ k[i] >= k[j]
    \/ (Len(k) >= 1 /\ k[Len(k)] # encoder_layers)

\* C12 (as claimed): no forward pass starts on an encoder whose k has
\* duplicate or decreasing values or does not end at the layer count.
C12_MalformedKRejected ==
    (history # <<>> /\ (passes > 0 \/ pc = "loop")) => ~MalformedK

\* ------------------------------------------------- checkpoint expander (stack.py)
\* A key of ckpt['model'] is held as the list of its dot-separated fields,
\* k.split('.'); every field is a string.  A tensor is its contents (data)
\* and the storage that holds them (store): clone() keeps the contents and
\* allocates a new storage.

num_of_layerpara == 13

\* the literal of "if count == 13" in the interleaving strategy
InterleaveGroup == 13

\* parameter keys per encoder layer in a snapshot: "rpr-network = 13,
\* base-network = 12"
LayerParaCounts == {12, 13}

Digit == <<"0", "1", "2", "3", "4", "5", "6", "7", "8", "9">>

RECURSIVE str(_)
\* str(n) of a non-negative or negative integer
str(n) == IF n < 0 THEN "-" \o str(-n)
          ELSE IF n < 10 THEN Digit[n + 1]
          ELSE str(n \div 10) \o Digit[(n % 10) + 1]

\* int(s) returns, rather than raising ValueError
IsInt(s) == \E n \in 0..NumeralBound : str(n) = s

\* int(s) for a numeral s
int(s) == CHOOSE n \in 0..NumeralBound : str(n) = s

\* v.clone() into the storage numbered fresh
clone(v, fresh) == [data |-> v.data, store |-> fresh]

Item(key, v) == [k |-> key, v |-> v]

\* forgets to test the stack name
LayerTest_anyStack(ks) ==
    IF Len(ks) < 2 THEN "IndexError"
    ELSE IF ks[2] = "layers" THEN "yes" ELSE "no"

\* outcome of "k_split[0] == 'encoder' and k_split[1] == 'layers'"
LayerTest(ks) ==
    IF ks[1] # "encoder" THEN "no"
    ELSE IF Len(ks) < 2 THEN "IndexError"
    ELSE IF ks[2] = "layers" THEN "yes" ELSE "no"

\* outcome of "k_split[0] == 'encoder' and k_split[1] == 'history' and
\* k_split[2] == 'layer_norms'"
NormTest(ks) ==
    IF ks[1] # "encoder" THEN "no"
    ELSE IF Len(ks) < 2 THEN "IndexError"
    ELSE IF ks[2] # "history" THEN "no"
    ELSE IF Len(ks) < 3 THEN "IndexError"
    ELSE IF ks[3] = "layer_norms" THEN "yes" ELSE "no"

\* int(k_split[i]), i counted from 0 as in the source
IntField(ks, i) ==
    IF Len(ks) < i + 1 THEN [err |-> "IndexError", n |-> 0]
    ELSE IF ~IsInt(ks[i + 1]) THEN [err |-> "ValueError", n |-> 0]
    ELSE [err |-> "none", n |-> int(ks[i + 1])]

\* k_split[i] = str(n); '.'.join(k_split)
Rekey(ks, i, n) == [ks EXCEPT ![i + 1] = str(n)]

\* what one "if" of the loop body did: the pairs appended to lst, the new
\* values of the counters, the exception raised
Did(adds, e, er) ==
    [adds |-> adds, counter_layer |-> e.counter_layer, count_layer |-> e.count_layer,
     layer |-> e.layer, count |-> e.count, err |-> er]

\* stack.py, strategy 0, the "if" on encoder.layers keys
LayerPart0(e, ks, v, fresh) ==
    LET t == LayerTest(ks)
        l == IntField(ks, 2)
    IN IF t = "no" THEN Did(<<>>, e, "none")
       ELSE IF t # "yes" THEN Did(<<>>, e, t)
       ELSE IF l.err # "none" THEN Did(<<>>, e, l.err)
       ELSE Did(<<Item(Rekey(ks, 2, l.n + e.encoder_layers), clone(v, fresh))>>, e, "none")

\* stack.py, strategy 0, the "if" on encoder.history.layer_norms keys
NormPart0(e, ks, v, fresh) ==
    LET t == NormTest(ks)
        l == IntField(ks, 3)
    IN IF t = "no" THEN Did(<<>>, e, "none")
       ELSE IF t # "yes" THEN Did(<<>>, e, t)
       ELSE IF l.err # "none" THEN Did(<<>>, e, l.err)
       ELSE Did(<<Item(Rekey(ks, 3, l.n + e.encoder_layers), clone(v, fresh))>>, e, "none")

\* off by one: starts one position too low
TargetLayer_low(e) == e.encoder_layers - e.counter_layer - 1

\* the layer position that strategy 1 clones next
TargetLayer(e) == e.encoder_layers - e.counter_layer

\* stack.py, strategy 1, the "if" on encoder.layers keys
LayerPart1(e, ks, v, fresh) ==
    LET t == LayerTest(ks)
        l == IntField(ks, 2)
    IN IF t = "no" THEN Did(<<>>, e, "none")
       ELSE IF t # "yes" THEN Did(<<>>, e, t)
       ELSE IF l.err # "none" THEN Did(<<>>, e, l.err)
       ELSE IF l.n # TargetLayer(e) THEN Did(<<>>, e, "none")
       ELSE LET full == e.count_layer + 1 = num_of_layerpara
            IN [adds |-> <<Item(Rekey(ks, 2, l.n + e.argv3), clone(v, fresh))>>,
                counter_layer |-> IF full THEN e.counter_layer - 1 ELSE e.counter_layer,
                count_layer |-> IF full THEN 0 ELSE e.count_layer + 1,
                layer |-> e.layer, count |-> e.count, err |-> "none"]

\* off by one: the slot that does not exist yet
SourceSlot_new(e) == Len(e.k) - 1

\* the history normalization slot that strategies 1 and 2 clone
SourceSlot(e) == Len(e.k) - 2

\* stack.py, strategies 1 and 2, the "if" on encoder.history.layer_norms keys
NormPart1(e, ks, v, fresh) ==
    LET t == NormTest(ks)
        l == IntField(ks, 3)
    IN IF t = "no" THEN Did(<<>>, e, "none")
       ELSE IF t # "yes" THEN Did(<<>>, e, t)
       ELSE IF l.err # "none" THEN Did(<<>>, e, l.err)
       ELSE IF l.n # SourceSlot(e) THEN Did(<<>>, e, "none")
       ELSE Did(<<Item(Rekey(ks, 3, l.n + 1), clone(v, fresh))>>, e, "none")

\* every copy made from one tensor shares one store
LayerPart2_shared(e, ks, v, fresh) ==
    LET t == LayerTest(ks)
        l == IntField(ks, 2)
    IN IF t = "no" THEN Did(<<>>, e, "none")
       ELSE IF t # "yes" THEN Did(<<>>, e, t)
       ELSE IF l.err # "none" THEN Did(<<>>, e, l.err)
       ELSE IF l.n # e.encoder_layers - 1 THEN Did(<<>>, e, "none")
       ELSE Did([i \in 1..(IF e.counter_layer < 0 THEN 0 ELSE e.counter_layer) |->
                   Item(Rekey(ks, 2, l.n + (i - 1) + 1), clone(v, fresh))],
                e, "none")

\* stack.py, strategy 2, the "if" on encoder.layers keys
LayerPart2(e, ks, v, fresh) ==
    LET t == LayerTest(ks)
        l == IntField(ks, 2)
    IN IF t = "no" THEN Did(<<>>, e, "none")
       ELSE IF t # "yes" THEN Did(<<>>, e, t)
       ELSE IF l.err # "none" THEN Did(<<>>, e, l.err)
       ELSE IF l.n # e.encoder_layers - 1 THEN Did(<<>>, e, "none")
       ELSE Did([i \in 1..(IF e.counter_layer < 0 THEN 0 ELSE e.counter_layer) |->
                   Item(Rekey(ks, 2, l.n + (i - 1) + 1), clone(v, fresh + i - 1))],
                e, "none")

\* the second position gets the tensor itself, not a copy
LayerPart3_shared(e, ks, v, fresh) ==
    LET t == LayerTest(ks)
        l == IntField(ks, 2)
    IN IF t = "no" THEN Did(<<>>, e, "none")
       ELSE IF t # "yes" THEN Did(<<>>, e, t)
       ELSE IF l.err # "none" THEN Did(<<>>, e, l.err)
       ELSE LET l_id == l.n + e.layer
                full == e.count + 1 = InterleaveGroup
            IN [adds |-> <<Item(Rekey(ks, 2, l_id), v),
                           Item(Rekey(ks, 2, l_id + 1), v)>>,
                counter_layer |-> e.counter_layer, count_layer |-> e.count_layer,
                layer |-> IF full THEN e.layer + 1 ELSE e.layer,
                count |-> IF full THEN 0 ELSE e.count + 1,
                err |-> "none"]

\* stack.py, strategy 3, the "if" on encoder.layers keys
LayerPart3(e, ks, v, fresh) ==
    LET t == LayerTest(ks)
        l == IntField(ks, 2)
    IN IF t = "no" THEN Did(<<>>, e, "none")
       ELSE IF t # "yes" THEN Did(<<>>, e, t)
       ELSE IF l.err # "none" THEN Did(<<>>, e, l.err)
       ELSE LET l_id == l.n + e.layer
                full == e.count + 1 = InterleaveGroup
            IN [adds |-> <<Item(Rekey(ks, 2, l_id), v),
                           Item(Rekey(ks, 2, l_id + 1), clone(v, fresh))>>,
                counter_layer |-> e.counter_layer, count_layer |-> e.count_layer,
                layer |-> IF full THEN e.layer + 1 ELSE e.layer,
                count |-> IF full THEN 0 ELSE e.count + 1,
                err |-> "none"]

\* the first "if" of the loop body of the selected strategy
LayerPart(e, ks, v, fresh) ==
    CASE e.strategy = 0 -> LayerPart0(e, ks, v, fresh)
      [] e.strategy = 1 -> LayerPart1(e, ks, v, fresh)
      [] e.strategy = 2 -> LayerPart2(e, ks, v, fresh)
      [] e.strategy = 3 -> LayerPart3(e, ks, v, fresh)

\* the second "if" of the loop body of the selected strategy (strategy 3
\* has none)
NormPart(e, ks, v, fresh) ==
    CASE e.strategy = 0 -> NormPart0(e, ks, v, fresh)
      [] e.strategy \in {1, 2} -> NormPart1(e, ks, v, fresh)
      [] e.strategy = 3 -> Did(<<>>, e, "none")

\* one iteration of "for k, v in ckpt['model'].items()" on the item at e.i
LoopItem(e) ==
    LET it == e.model[e.i]
        fresh == Len(e.input) + Len(e.lst) + 1
        a == LayerPart(e, it.k, it.v, fresh)
        e1 == [e EXCEPT !.counter_layer = a.counter_layer, !.count_layer = a.count_layer,
                        !.layer = a.layer, !.count = a.count, !.lst = @ \o a.adds]
        b == NormPart(e1, it.k, it.v, fresh + Len(a.adds))
    IN IF a.err # "none" THEN [e EXCEPT !.pc = "failed", !.err = a.err]
       ELSE IF b.err # "none" THEN [e1 EXCEPT !.pc = "failed", !.err = b.err]
       ELSE [e1 EXCEPT !.lst = @ \o b.adds, !.i = @ + 1]

\* ckpt['model'][key] = v on an ordered dict
DictSet(model, key, v) ==
    IF \E i \in 1..Len(model) : model[i].k = key
    THEN [i \in 1..Len(model) |-> IF model[i].k = key THEN Item(key, v) ELSE model[i]]
    ELSE Append(model, Item(key, v))

\* the two branches exchanged
NewDepth_swapped(e) ==
    IF e.strategy = 1 \/ e.strategy = 2 THEN e.encoder_layers * 2
    ELSE IF e.strategy = 0 \/ e.strategy = 3 THEN e.encoder_layers + e.argv3
    ELSE e.encoder_layers

\* ckpt['args'].encoder_layers after the update that follows the write-back
NewDepth(e) ==
    IF e.strategy = 0 \/ e.strategy = 3 THEN e.encoder_layers * 2
    ELSE IF e.strategy = 1 \/ e.strategy = 2 THEN e.encoder_layers + e.argv3
    ELSE e.encoder_layers

\* name of the j-th parameter of a layer or of a normalization slot
ParamName(j) == "p" \o str(j)

RECURSIVE LayerKeys(_, _, _)
\* the keys encoder.layers.<p>.<param> of the first n positions listed in
\* order, P parameters each, as a state dict lists them
LayerKeys(order, P, n) ==
    IF n = 0 THEN <<>>
    ELSE LayerKeys(order, P, n - 1) \o
         [j \in 1..P |-> <<"encoder", "layers", str(order[n]), ParamName(j)>>]

RECURSIVE NormKeys(_, _)
\* the keys encoder.history.layer_norms.<s>.<param> of slots 0..n-1, q
\* parameters each
NormKeys(q, n) ==
    IF n = 0 THEN <<>>
    ELSE NormKeys(q, n - 1) \o
         [j \in 1..q |-> <<"encoder", "history", "layer_norms", str(n - 1), ParamName(j)>>]

\* keys that the key grammar of stack.py does not expect
OddKeys ==
    [none |-> <<>>,
     bare |-> << <<"encoder">> >>,
     short_layers |-> << <<"encoder", "layers">> >>,
     nan_layers |-> << <<"encoder", "layers", "x", "p1">> >>,
     short_history |-> << <<"encoder", "history">> >>,
     short_norms |-> << <<"encoder", "history", "layer_norms">> >>,
     nan_norms |-> << <<"encoder", "history", "layer_norms", "x", "p1">> >>]

\* ckpt['model'] of a snapshot saved from an encoder of L layers with P
\* parameters per layer listed in the given order of positions, nslots
\* history normalization slots of q parameters, decoder parameters and
\* possibly an odd key; the history is registered before the layers
Snapshot(L, P, order, nslots, q, odd) ==
    LET keys == << <<"encoder", "embed_tokens", "weight">> >>
                \o (IF nslots > 0 THEN << <<"encoder", "history", "weight">> >> ELSE <<>>)
                \o NormKeys(q, nslots)
                \o LayerKeys(order, P, L)
                \o << <<"decoder", "layers", "0", "p1">>,
                      <<"decoder", "history", "layer_norms", "0", "p1">> >>
                \o OddKeys[odd]
    IN [i \in 1..Len(keys) |-> Item(keys[i], [data |-> i, store |-> i])]

\* positions 0..L-1 in ascending or descending order
Positions(L, dir) == [n \in 1..L |-> IF dir = "asc" THEN n - 1 ELSE L - n]

\* ckpt['args'].k of a snapshot: nk checkpoints, the last one at L
SnapshotK(nk, L) == [j \in 1..nk |-> IF j = nk THEN L ELSE j - 1]

\* main() of stack.py after torch.load(sys.argv[1]) and int(sys.argv[3]),
\* with the module constant strategy set to st
Loaded(st, delta, L, kk, model) ==
    [pc |-> "scan", err |-> "none", saved |-> FALSE,
     strategy |-> st, argv3 |-> delta,
     model |-> model, encoder_layers |-> L, k |-> kk,
     input |-> model, input_layers |-> L, input_k |-> kk,
     lst |-> <<>>, i |-> 1, j |-> 1,
     counter_layer |-> delta, count_layer |-> 0, layer |-> 0, count |-> 0]

\* the forward pass and the free history client are not running
EncoderIdle ==
    /\ k = <<>>
    /\ encoder_layers = 0
    /\ normalize = FALSE
    /\ history = <<>>
    /\ pc = "expander"
    /\ layer_id = 0
    /\ x = ZeroT
    /\ passes = 0
    /\ err = "none"
    /\ trace = <<>>
    /\ last = NoCall
    /\ recorded = <<>>

\* the runs of stack.py: every strategy on snapshots of small encoders,
\* snapshots that hold an odd key, and the 6-layer snapshot with k = [0, 6]
InitExpander ==
    /\ EncoderIdle
    /\ \/ \E st \in 0..3, delta \in 0..MaxDelta, L \in 0..MaxDepth, P \in LayerParaCounts,
            dir \in {"asc", "desc"}, nk \in 1..MaxSnapK, hist \in BOOLEAN :
            expander = Loaded(st, delta, L, SnapshotK(nk, L),
                              Snapshot(L, P, Positions(L, dir),
                                       IF hist THEN nk - 1 ELSE 0, 2, "none"))
       \/ \E st \in 0..3, L \in 1..2, odd \in DOMAIN OddKeys \ {"none"} :
            expander = Loaded(st, 1, L, SnapshotK(2, L),
                              Snapshot(L, num_of_layerpara, Positions(L, "asc"), 1, 2, odd))
       \/ expander = Loaded(1, 6, 6, <<0, 6>>,
                            Snapshot(6, 13, Positions(6, "asc"), 1, 1, "none"))

\* lines 16-87: one iteration of the loop of the selected strategy
ScanItem ==
    /\ expander.pc = "scan"
    /\ expander.i <= Len(expander.input)
    /\ expander' = LoopItem(expander)
    /\ UNCHANGED <<k, encoder_layers, normalize, history, pc, layer_id, x, passes, err,
                   trace, last, recorded>>

\* lines 89-90: one iteration of "for k, v in lst: ckpt['model'][k] = v"
WriteItem ==
    /\ expander.pc = "scan"
    /\ expander.i > Len(expander.input)
    /\ expander.j <= Len(expander.lst)
    /\ expander' = [expander EXCEPT
                      !.model = DictSet(@, expander.lst[expander.j].k,
                                        expander.lst[expander.j].v),
                      !.j = @ + 1]
    /\ UNCHANGED <<k, encoder_layers, normalize, history, pc, layer_id, x, passes, err,
                   trace, last, recorded>>

\* also appends the new depth to ckpt['args'].k
Save_extendsK ==
    /\ expander.pc = "scan"
    /\ expander.i > Len(expander.input)
    /\ expander.j > Len(expander.lst)
    /\ expander' = [expander EXCEPT
                      !.encoder_layers = NewDepth(expander),
                      !.k = Append(@, NewDepth(expander)),
                      !.saved = TRUE,
                      !.pc = "done"]
    /\ UNCHANGED <<k, encoder_layers, normalize, history, pc, layer_id, x, passes, err,
                   trace, last, recorded>>

\* lines 93-97: update encoder_layers, torch.save(ckpt, sys.argv[2])
Save ==
    /\ expander.pc = "scan"
    /\ expander.i > Len(expander.input)
    /\ expander.j > Len(expander.lst)
    /\ expander' = [expander EXCEPT
                      !.encoder_layers = NewDepth(expander),
                      !.saved = TRUE,
                      !.pc = "done"]
    /\ UNCHANGED <<k, encoder_layers, normalize, history, pc, layer_id, x, passes, err,
                   trace, last, recorded>>

NextExpander == ScanItem \/ WriteItem \/ Save

SpecExpander == InitExpander /\ [][NextExpander]_vars

\* ---------------------------------------------------- properties: expander
Range(seq) == {seq[i] : i \in 1..Len(seq)}

Keys(model) == {model[i].k : i \in 1..Len(model)}

\* the tensor stored under a key of the model
ValueOf(model, key) == model[CHOOSE i \in 1..Len(model) : model[i].k = key].v

\* the key follows encoder.layers.<position>.<param>
IsLayerKey(ks) ==
    Len(ks) >= 4 /\ ks[1] = "encoder" /\ ks[2] = "layers" /\ IsInt(ks[3])

\* the key follows encoder.history.layer_norms.<slot>.<param>
IsNormKey(ks) ==
    /\ Len(ks) >= 5 /\ ks[1] = "encoder" /\ ks[2] = "history"
    /\ ks[3] = "layer_norms" /\ IsInt(ks[4])

LayerKeysAt(model, p) == {ks \in Keys(model) : IsLayerKey(ks) /\ int(ks[3]) = p}

NormKeysAt(model, s) == {ks \in Keys(model) : IsNormKey(ks) /\ int(ks[4]) = s}

LayerPositions(model) == {int(ks[3]) : ks \in {c \in Keys(model) : IsLayerKey(c)}}

NormSlots(model) == {int(ks[4]) : ks \in {c \in Keys(model) : IsNormKey(c)}}

\* the run has written its output
Done == expander.pc = "done"

\* the tensor under key is a value copy of the input tensor under src
IsCopyOf(key, src) ==
    /\ key \in Keys(expander.model)
    /\ ValueOf(expander.model, key).data = ValueOf(expander.input, src).data
    /\ \A i \in 1..Len(expander.input) :
         expander.input[i].v.store # ValueOf(expander.model, key).store

\* the input lists the layer positions 0..L-1, each with num_of_layerpara keys
FullLayers ==
    /\ LayerPositions(expander.input) = 0..(expander.input_layers - 1)
    /\ \A p \in 0..(expander.input_layers - 1) :
         Cardinality(LayerKeysAt(expander.input, p)) = num_of_layerpara

\* the layer keys of the input are listed in ascending position order
AscendingLayers ==
    \A a, b \in 1..Len(expander.input) :
      (a < b /\ IsLayerKey(expander.input[a].k) /\ IsLayerKey(expander.input[b].k))
        => int(expander.input[a].k[3]) <= int(expander.input[b].k[3])

\* the input holds the history normalization slots 0..len(k)-2, at least one
HasHistorySlots ==
    /\ Len(expander.input_k) >= 2
    /\ NormSlots(expander.input) = 0..(Len(expander.input_k) - 2)

\* what strategy 1 is said to produce from the top delta layer positions and
\* the last history normalization slot
StackedOnTop ==
    LET L == expander.input_layers
        delta == expander.argv3
        s == Len(expander.input_k) - 2
    IN /\ \A p \in (L - delta)..(L - 1) :
            \A ks \in LayerKeysAt(expander.input, p) :
              IsCopyOf(Rekey(ks, 2, p + delta), ks)
       /\ LayerPositions(expander.model) \ LayerPositions(expander.input)
            = L..(L + delta - 1)
       /\ NormSlots(expander.model) \ NormSlots(expander.input) = {s + 1}
       /\ NormKeysAt(expander.input, s) # {}
       /\ \A ks \in NormKeysAt(expander.input, s) : IsCopyOf(Rekey(ks, 3, s + 1), ks)
       /\ Cardinality(NormKeysAt(expander.model, s + 1))
            = Cardinality(NormKeysAt(expander.input, s))

\* C13 (as claimed): strategy 1 with 1 <= delta <= L on a snapshot whose
\* positions 0..L-1 have num_of_layerpara keys each copies every parameter of
\* the positions L-delta..L-1 to the new positions L..L+delta-1 and adds
\* one history normalization slot, a copy of slot len(k)-2 at len(k)-1.
C13_StackOnTop ==
    (/\ Done /\ expander.strategy = 1
     /\ 1 <= expander.argv3 /\ expander.argv3 <= expander.input_layers
     /\ FullLayers) => StackedOnTop

\* C13 (amended): the same, for a snapshot that also lists its layer keys in
\* ascending position order and holds the history normalization slots
\* 0..len(k)-2 with len(k) >= 2.
C13_StackOnTopAscending ==
    (/\ Done /\ expander.strategy = 1
     /\ 1 <= expander.argv3 /\ expander.argv3 <= expander.input_layers
     /\ FullLayers /\ AscendingLayers /\ HasHistorySlots) => StackedOnTop

\* strategy 1 has stacked two copies on a three-layer snapshot
C13_Witness ==
    /\ Done /\ expander.strategy = 1
    /\ expander.argv3 = 2 /\ expander.input_layers = 3
    /\ FullLayers /\ AscendingLayers /\ HasHistorySlots
    /\ IsCopyOf(<<"encoder", "layers", "4", "p13">>, <<"encoder", "layers", "2", "p13">>)
    /\ IsCopyOf(<<"encoder", "layers", "3", "p1">>, <<"encoder", "layers", "1", "p1">>)

\* the snapshot of the scenario: 6 layers of 13 keys, k = [0, 6], one history
\* normalization key, at slot 0, expanded by 6 with strategy 1
Scenario14 ==
    /\ expander.pc # "idle"
    /\ expander.strategy = 1 /\ expander.argv3 = 6
    /\ expander.input_layers = 6 /\ expander.input_k = <<0, 6>>
    /\ FullLayers
    /\ Cardinality({ks \in Keys(expander.input) : IsNormKey(ks)}) = 1
    /\ NormSlots(expander.input) = {0}

\* the key set the scenario expects, but for k
Scenario14Keys ==
    /\ expander.encoder_layers = 12
    /\ LayerPositions(expander.model) = 0..11
    /\ \A p \in 0..11 : Cardinality(LayerKeysAt(expander.model, p)) = 13
    /\ NormSlots(expander.model) = {0, 1}
    /\ Cardinality({ks \in Keys(expander.model) : IsNormKey(ks)}) = 2
    /\ Len(expander.model) = Len(expander.input) + 6 * 13 + 1

C15_NoEmptyPosition ==
    (Done /\ expander.strategy = 1 /\ expander.input_layers >= 1) =>
      /\ \A p \in 0..(expander.encoder_layers - 1) : LayerKeysAt(expander.model, p) # {}
      /\ Keys(expander.input) \subseteq Keys(expander.model)

\* C16: the encoder_layers written is L + delta after strategies 1 and 2
\* and 2L after strategies 0 and 3.
C16_NewDepth ==
    Done =>
      expander.encoder_layers =
        IF expander.strategy \in {1, 2} THEN expander.input_layers + expander.argv3
        ELSE 2 * expander.input_layers

\* one run where the two rules differ
C16_Witness ==
    /\ Done /\ expander.strategy = 3
    /\ expander.input_layers = 2 /\ expander.argv3 = 3
    /\ expander.encoder_layers = 4

C18_KUnchanged == expander.pc # "idle" => expander.k = expander.input_k

\* a run that changed encoder_layers and added a slot has kept k
C18_Witness ==
    /\ Done /\ expander.strategy = 1 /\ expander.argv3 = 2
    /\ expander.encoder_layers = expander.input_layers + 2
    /\ HasHistorySlots
    /\ NormSlots(expander.model) # NormSlots(expander.input)
    /\ expander.k = expander.input_k

\* C19 (as claimed): a run with delta = 0 fails or writes the input back.
C19_ZeroDeltaNoOp ==
    (Done /\ expander.strategy = 1 /\ expander.argv3 = 0 /\ expander.input_layers >= 1) =>
      /\ expander.model = expander.input
      /\ expander.encoder_layers = expander.input_layers
      /\ expander.k = expander.input_k

\* the keys that the claim calls malformed
OddKeySet == UNION {Range(OddKeys[n]) : n \in DOMAIN OddKeys}

\* C20 (as claimed): a run on a snapshot with a malformed key does not fail
\* and writes the key through unchanged.
C20_OddKeyIgnored ==
    (expander.pc # "idle" /\ expander.strategy = 1) =>
      \A i \in 1..Len(expander.input) :
        expander.input[i].k \in OddKeySet =>
          /\ expander.pc # "failed"
          /\ Done => /\ expander.input[i].k \in Keys(expander.model)
                     /\ ValueOf(expander.model, expander.input[i].k) = expander.input[i].v

\* the keys of the output that the input does not have
NewKeys == Keys(expander.model) \ Keys(expander.input)

\* what strategy 2 is said to produce from the top layer position and the
\* last history normalization slot
TopReplicated ==
    LET L == expander.input_layers
        delta == expander.argv3
        s == Len(expander.input_k) - 2
    IN /\ \A ks \in LayerKeysAt(expander.input, L - 1) :
            \A d \in 1..delta : IsCopyOf(Rekey(ks, 2, L - 1 + d), ks)
       /\ \A n \in 1..Len(expander.lst) :
            IsLayerKey(expander.lst[n].k) =>
              \E ks \in LayerKeysAt(expander.input, L - 1) :
                \E d \in 1..delta :
                  /\ expander.lst[n].k = Rekey(ks, 2, L - 1 + d)
                  /\ expander.lst[n].v.data = ValueOf(expander.input, ks).data
       /\ \A a, b \in NewKeys :
            a # b => ValueOf(expander.model, a).store # ValueOf(expander.model, b).store
       /\ NormSlots(expander.model) \ NormSlots(expander.input) = {s + 1}
       /\ NormKeysAt(expander.input, s) # {}
       /\ \A ks \in NormKeysAt(expander.input, s) : IsCopyOf(Rekey(ks, 3, s + 1), ks)
       /\ Cardinality(NormKeysAt(expander.model, s + 1))
            = Cardinality(NormKeysAt(expander.input, s))

\* C21 (as claimed): strategy 2 with delta >= 1 clones every parameter of
\* position L-1 into each of the positions L..L+delta-1 and no other
\* position, every clone with a store of its own, and adds one history
\* normalization slot as strategy 1 does.
C21_TopOnly ==
    (Done /\ expander.strategy = 2 /\ expander.argv3 >= 1) => TopReplicated

\* C21 (amended): the same, for a snapshot that holds the history
\* normalization slots 0..len(k)-2 with len(k) >= 2.
C21_TopOnlyWithSlots ==
    (Done /\ expander.strategy = 2 /\ expander.argv3 >= 1 /\ HasHistorySlots)
      => TopReplicated

\* the one layer of a snapshot has been replicated three times
C21_Witness ==
    /\ Done /\ expander.strategy = 2
    /\ expander.argv3 = 3 /\ expander.input_layers = 1
    /\ HasHistorySlots
    /\ LayerPositions(expander.model) = 0..3
    /\ \A p \in 1..3 :
         IsCopyOf(<<"encoder", "layers", str(p), "p1">>, <<"encoder", "layers", "0", "p1">>)
    /\ ValueOf(expander.model, <<"encoder", "layers", "1", "p1">>).store
         # ValueOf(expander.model, <<"encoder", "layers", "3", "p1">>).store

\* C22 (as claimed): strategy 0 puts a value copy of every layer key of
\* position p at p + L and of every history normalization key of slot s at
\* s + L, and the input's positions and slots keep their values.
C22_DuplicateAll ==
    (Done /\ expander.strategy = 0) =>
      LET L == expander.input_layers
      IN /\ \A p \in 0..(L - 1) : \A ks \in LayerKeysAt(expander.input, p) :
              IsCopyOf(Rekey(ks, 2, p + L), ks)
         /\ \A s \in NormSlots(expander.input) : \A ks \in NormKeysAt(expander.input, s) :
              IsCopyOf(Rekey(ks, 3, s + L), ks)
         /\ \A i \in 1..Len(expander.input) :
              LET it == expander.input[i]
              IN (IsLayerKey(it.k) \/ IsNormKey(it.k)) =>
                   /\ it.k \in Keys(expander.model)
                   /\ ValueOf(expander.model, it.k).data = it.v.data

\* C23: strategy 3 on a snapshot with num_of_layerpara keys per position,
\* in ascending position order, leaves at position 2p the tensors of input
\* position p themselves and at position 2p+1 value copies of them, and
\* the output has the positions 0..2L-1.
C23_Interleave ==
    (Done /\ expander.strategy = 3 /\ FullLayers /\ AscendingLayers) =>
      LET L == expander.input_layers
      IN /\ LayerPositions(expander.model) = 0..(2 * L - 1)
         /\ \A p \in 0..(L - 1) : \A ks \in LayerKeysAt(expander.input, p) :
              /\ Rekey(ks, 2, 2 * p) \in Keys(expander.model)
              /\ ValueOf(expander.model, Rekey(ks, 2, 2 * p)) = ValueOf(expander.input, ks)
              /\ IsCopyOf(Rekey(ks, 2, 2 * p + 1), ks)
         /\ \A q \in 0..(2 * L - 1) :
              Cardinality(LayerKeysAt(expander.model, q)) = num_of_layerpara

\* a three-layer snapshot has been interleaved
C23_Witness ==
    /\ Done /\ expander.strategy = 3 /\ expander.input_layers = 3
    /\ FullLayers /\ AscendingLayers
    /\ ValueOf(expander.model, <<"encoder", "layers", "4", "p13">>)
         = ValueOf(expander.input, <<"encoder", "layers", "2", "p13">>)
    /\ IsCopyOf(<<"encoder", "layers", "5", "p13">>, <<"encoder", "layers", "2", "p13">>)
    /\ IsCopyOf(<<"encoder", "layers", "1", "p1">>, <<"encoder", "layers", "0", "p1">>)

\* C29 (as claimed): on a snapshot with the layer positions 0..L-1 and the
\* history normalization slots 0..len(k)-2, strategies 0, 1 and 2 write
\* no key of the input, so every input key keeps its tensor; strategy 3
\* leaves at every input position p >= 1 the parameters of input
\* position p div 2.  Stated for the snapshots whose k is not longer than
\* a strictly increasing list from 0 to L.
C29_OnlyAdds ==
    LET L == expander.input_layers
    IN /\ (/\ Done /\ expander.strategy \in {0, 1, 2}
           /\ Len(expander.input_k) <= L + 1
           /\ LayerPositions(expander.input) = 0..(L - 1)
           /\ NormSlots(expander.input) = 0..(Len(expander.input_k) - 2)) =>
            /\ \A n \in 1..Len(expander.lst) :
                 expander.lst[n].k \notin Keys(expander.input)
            /\ \A i \in 1..Len(expander.input) :
                 /\ expander.input[i].k \in Keys(expander.model)
                 /\ ValueOf(expander.model, expander.input[i].k) = expander.input[i].v
       /\ (Done /\ expander.strategy = 3) =>
            \A p \in 1..(L - 1) : \A ks \in LayerKeysAt(expander.input, p) :
              /\ Rekey(ks, 2, p \div 2) \in Keys(expander.input)
              /\ ValueOf(expander.model, ks).data
                   = ValueOf(expander.input, Rekey(ks, 2, p \div 2)).data

\* the layer positions that a run has cloned, read back from the keys of lst
ClonedPositions ==
    {int(expander.lst[n].k[3]) - expander.argv3 :
       n \in {m \in 1..Len(expander.lst) : IsLayerKey(expander.lst[m].k)}}

\* C30 (as claimed): whatever the order of the keys and the number of keys
\* of a layer position, strategy 1 clones the positions L-delta..L-1.
C30_OrderAndCountFree ==
    (/\ Done /\ expander.strategy = 1
     /\ 1 <= expander.argv3 /\ expander.argv3 <= expander.input_layers
     /\ LayerPositions(expander.input) = 0..(expander.input_layers - 1)) =>
      ClonedPositions = (expander.input_layers - expander.argv3)..(expander.input_layers - 1)

\* ------------------------------------------- properties: encoder, the ledger
\* the next step of the pass calls pop()
PopsNow ==
    /\ history # <<>> /\ pc = "loop"
    /\ (layer_id = encoder_layers \/ IsCheckpoint(layer_id, k))

\* C24 (as claimed): in a pass with a valid k, the pop() call number i of
\* the pass, counted from 0, reads row i of the weight matrix and its
\* columns 0..i.
C24_RowOrder ==
    (ValidK /\ PopsNow) =>
      LET i == Cardinality(EventsOf("pop"))
      IN /\ WeightRow(history[1].count) = i
         /\ SliceLen(history[1].count, history[1].layer_num) = i + 1

\* C25 (as claimed): when i and i+1 are both in k, the step of the loop at
\* position i makes a pop() and an add() of the output of block i.
C25_CombineAndRecord ==
    (history # <<>> /\ ValidK) =>
      \A p \in EventsOf("layer") :
        (InK(trace[p].at, k) /\ InK(trace[p].at + 1, k)) =>
          /\ \E q \in EventsOf("pop") : trace[q].at = trace[p].at
          /\ \E q \in EventsOf("add") :
               trace[q].at = trace[p].at /\ trace[q].val = trace[p].out

\* the ledger entry e is the record of y: y itself, or y passed through a
\* normalization slot
IsRecordOf(e, y) ==
    \/ e = y
    \/ \E s \in 0..(history[1].layer_norms - 1) : e = LayerNorm(s, y)

\* C26 (as claimed): at the end of a pass with a valid k, the output of
\* every block is the input of the next block or is in the ledger.
C26_NoOutputDiscarded ==
    (history # <<>> /\ ValidK /\ pc = "ready" /\ passes > 0 /\ err = "none") =>
      \A p \in EventsOf("layer") :
        \/ \E q \in EventsOf("layer") :
             trace[q].at = trace[p].at + 1 /\ trace[q].val = trace[p].out
        \/ \E j \in 1..Len(history[1].layers) :
             IsRecordOf(history[1].layers[j], trace[p].out)

\* k has no duplicate and starts with 0
DuplicateFreeFromZero ==
    /\ Len(k) >= 1 /\ k[1] = 0
    /\ \A i, j \in 1..Len(k) : i # j => k[i] # k[j]

\* C27: with a duplicate-free k that starts with 0 the ledger never holds
\* more than len(k) entries, pop() reads a row in 0..len(k)-1 of the
\* len(k) x len(k) matrix and add() and pop() use a normalization slot in
\* 0..len(k)-2 of the len(k)-1 slots built; no index error is raised.
C27_IndexesInRange ==
    (history # <<>> /\ DuplicateFreeFromZero) =>
      LET h == history[1]
      IN /\ h.layer_num = Len(k) /\ h.layer_norms = Len(k) - 1
         /\ Len(h.layers) <= Len(k) /\ h.count <= Len(k)
         /\ err # "IndexError"
         /\ PopsNow =>
              /\ WeightRow(h.count) \in 0..(h.layer_num - 1)
              /\ PopNormalizes(h) => NormSlot(h.count) \in 0..(h.layer_norms - 1)
         /\ (h.normalize_before /\ h.count >= 2) =>
              NormSlot(h.count) \in 0..(h.layer_norms - 1)

\* a finished pass that filled the ledger and used the last slot and row
C27_Witness ==
    /\ history # <<>> /\ DuplicateFreeFromZero
    /\ pc = "ready" /\ passes > 0 /\ err = "none"
    /\ Len(k) = 3
    /\ history[1].normalize_before
    /\ history[1].count = 3 /\ Len(history[1].layers) = 3
    /\ \E s \in {1} : \E y \in {trace[p].out : p \in EventsOf("layer")} :
         history[1].layers[3] = LayerNorm(s, y)

\* the add() calls of the current pass that returned, in order
RECURSIVE AddsOf(_)
AddsOf(n) ==
    IF n = 0 THEN <<>>
    ELSE IF trace[n].op = "add" /\ trace[n].err = "none"
         THEN Append(AddsOf(n - 1), trace[n].val)
         ELSE AddsOf(n - 1)

\* C28 (as claimed): in every pass on an encoder with history, the ledger
\* holds the embedded input of the pass alone when the layer loop starts,
\* every entry of the ledger was recorded in the current pass, and the
\* ledger never holds more than len(k) entries.  Stated for non-empty k.
C28_ResetEachPass ==
    (history # <<>> /\ passes > 0 /\ Len(k) >= 1) =>
      LET h == history[1]
          adds == AddsOf(Len(trace))
      IN /\ (pc = "loop" /\ layer_id = 0) =>
              (h.layers = <<x>> /\ \E b \in 1..NumInputs : x = Embed(b))
         /\ Len(h.layers) = Len(adds)
         /\ \A j \in 1..Len(adds) : IsRecordOf(h.layers[j], adds[j])
         /\ Len(h.layers) <= Len(k)

====
